---------------------------- MODULE Spec2Model ----------------------------
(***************************************************************************)
(* Model of easy_drone.AbstractDrone (src/easy_drone/abstract_drone.py):   *)
(* the command queue, the Command Worker (Mavlink-Command-Thread), the     *)
(* event loop run by the Mavlink-Telemetry-Thread, the optional user       *)
(* Loop-Thread, and the constructor / stop() lifecycle executed by the     *)
(* caller's (main) thread.                                                  *)
(*                                                                         *)
(* Every thread has a program counter; one action is one atomic step of    *)
(* the Python code (CPython executes deque.append/popleft/clear and the    *)
(* attribute reads and writes atomically under the GIL).                   *)
(***************************************************************************)
EXTENDS Integers, Sequences, FiniteSets

\* ------------------------------------------------------------------ bounds
\* commands enqueued by user code and the hooks together (stop()'s own disarm
\* is not counted: stop() always enqueues it)
MaxCmds == 2
\* invocations of the loop hook
MaxLoopIters == 1
\* calls of stop() (the explicit call and the atexit-registered one)
MaxStops == 2
MaxGets == 1
MaxDisp == 4
MaxFenceMeters == 4
MaxFenceDegrees == 2
MaxTasks == 11
MaxInFlight == 1
MaxFailures == 1
MaxSamples == 3
MaxReads == 2
TimeSlice == 2
MaxTime == 6
MaxBurst == 3
MaxToggles == 2

VARIABLES
    mpc,             \* main thread: position in __init__, user code or stop()
    ctorError,       \* exception that left __init__ ("none" when it returned or runs)
    stopCalls,       \* number of stop() calls begun
    stopsDone,       \* number of stop() calls that returned normally
    stopError,       \* exception that left the last stop() call ("none" if none)
    enq,             \* history: every command ever appended, in append order
    queue,           \* self._queue: ids (indices of enq) of the pending commands
    cleared,         \* history: ids removed by self._queue.clear()
    wpc,             \* Command Worker: position in _process_command_loop
    cur,             \* the command the worker popped and is dispatching (0: none)
    dispatched,      \* history: ids handed to _process_command, in order
    inlineRun,       \* history: ids whose callable ran inside the worker thread
    rejected,        \* history: ids whose inline run raised ActionError/OffboardError
    stopped_mavlink, \* self._stopped_mavlink
    stopped_loop,    \* self._stopped_loop
    drone,           \* TRUE while the attribute self._drone exists
    releases,        \* history: who called _cleanup, in order
    lpc,             \* Loop-Thread: position in _loop_loop
    hookCalls,       \* history: number of invocations of loop()
    tpc,             \* Telemetry thread: position around loop.run_forever()
    loopStopping,    \* the event loop's _stopping flag (set by loop.stop())
    scheduled,       \* tasks created on the event loop and not yet run
    ran,             \* history: ids of the tasks the event loop has run
    teardownCalls,   \* history: number of invocations of teardown()
    connected,       \* the connected signal was observed by _async_connect
    calibrated,      \* calibrate_all() has run
    setupCalls,      \* history: number of invocations of setup()
    loopStarts,      \* history: number of Loop-Thread contexts ever started
    gstate,          \* get_data_async: the Task it created (none/pending/done)
    gresult,         \* the result stored in that Task (0: none yet)
    got,             \* history: the value the last get_data_async returned
    gets,            \* history: number of get_data_async calls that returned
    dispAtGet,       \* history: Len(dispatched) when the current call began
    manReq,          \* _maneuver_to: the arguments of the dispatched maneuver
    manTel,          \* telemetry snapshot: position and heading
    manOut,          \* commands the maneuver issued to the offboard interface
    geoReq,          \* _create_geofence: distance and home position
    geoOut,          \* polygons uploaded by _create_geofence
    taskCache,       \* AbstractPlugin._task_cache
    resultCache,     \* AbstractPlugin._result_cache
    tasks,           \* state of every task the plugin submitted, by number
    recorded,        \* history: tasks whose result was recorded, in order
    transponderData, \* Transponder._transponder_data (0: None)
    txSamples,       \* history: samples the transponder stream delivered
    txReads,         \* history: values returned by Transponder.transponder()
    now,             \* perf_counter(): the time, in ticks
    sliceStart,      \* start_time of the worker's current iteration
    wakeAt,          \* the time the worker's sleep() ends
    spc,             \* Command Worker: position in one timed iteration
    sliceWork,       \* what the current iteration's try block did
    waiting,         \* number of commands in the queue
    burstAt,         \* history: the time the commands were put (-1: not yet)
    iters,           \* history: number of iterations begun
    dispatchTimes,   \* history: time and iteration start of every dispatch
    telAtCall,       \* history: the telemetry snapshot when maneuver_to() was called
    is_active,       \* Offboard._is_active
    obQuery,         \* the is_active query task of Offboard.__init__
    obAnswer,        \* the result held by the query task once answered
    linkActive,      \* the flight controller is in offboard mode
    obPending,       \* start/stop operations scheduled on the event loop
    obLast,          \* history: the last of start() / stop() that was called
    obReads          \* history: values returned by Offboard.is_active()

vars == <<mpc, ctorError, stopCalls, stopsDone, stopError, enq, queue, cleared,
          wpc, cur, dispatched, inlineRun, rejected, stopped_mavlink,
          stopped_loop, drone, releases, lpc, hookCalls, tpc, loopStopping,
          scheduled, ran, teardownCalls, connected, calibrated, setupCalls,
          loopStarts, gstate, gresult, got, gets, dispAtGet, manReq, manTel,
          manOut, geoReq, geoOut, taskCache, resultCache, tasks, recorded,
          transponderData, txSamples, txReads,
          now, sliceStart, wakeAt, spc, sliceWork, waiting, burstAt, iters, dispatchTimes,
          telAtCall,
          is_active, obQuery, obAnswer, linkActive, obPending, obLast, obReads>>

mainVars == <<mpc, ctorError, stopCalls, stopsDone, stopError>>
workerVars == <<wpc, cur, dispatched, inlineRun, rejected>>
loopVars == <<lpc, hookCalls>>
eventVars == <<tpc, scheduled, ran>>
ctorVars == <<connected, calibrated, setupCalls>>
bridgeVars == <<gstate, gresult, got, gets, dispAtGet>>
manVars == <<manReq, manTel, manOut>>
geoVars == <<geoReq, geoOut>>
plugVars == <<taskCache, resultCache, tasks, recorded>>
txVars == <<transponderData, txSamples, txReads>>
timeVars == <<now, sliceStart, wakeAt, spc, sliceWork, waiting, burstAt, iters, dispatchTimes>>
snapVars == <<telAtCall>>
obVars == <<is_active, obQuery, obAnswer, linkActive, obPending, obLast, obReads>>
pureVars == <<manVars, geoVars, plugVars, txVars, timeVars, snapVars, obVars>>
sessionVars == <<mainVars, enq, queue, cleared, workerVars, stopped_mavlink,
                 stopped_loop, drone, releases, loopVars, eventVars,
                 loopStopping, teardownCalls, ctorVars, loopStarts,
                 bridgeVars>>

\* ----------------------------------------------------------------- helpers
\* the elements of a sequence
Range(s) == {s[i] : i \in 1..Len(s)}

\* number of commands appended so far by producers other than stop()
Produced == Cardinality({i \in 1..Len(enq) : enq[i].src # "stop"})

\* put(): self._queue.append((obj, args, kwargs)); the new command's id is its
\* index in the append history, which also records who appended it and during
\* which stop() call (0: before any)
PutFront(kind, src) ==
    /\ enq' = Append(enq, [kind |-> kind, src |-> src, call |-> stopCalls])
    /\ queue' = <<Len(enq) + 1>> \o queue

PutCmd(kind, src) ==
    /\ enq' = Append(enq, [kind |-> kind, src |-> src, call |-> stopCalls])
    /\ queue' = Append(queue, Len(enq) + 1)

\* deque.popleft(): the element returned
PopRight(q) == q[Len(q)]
PopLeft(q) == Head(q)

\* deque.popleft(): the deque afterwards
KeepAll(q) == q
RestAfterPop(q) == Tail(q)

\* asyncio.iscoroutinefunction(com)
NeverCoroutine(kind) == FALSE
IsCoroutine(kind) == kind = "async"

\* the except clauses of the worker loop: ActionError and OffboardError are
\* caught (IndexError is the empty-queue case); anything else propagates
CatchesNothing(outcome) == FALSE
WorkerCatches(outcome) == outcome = "rej"

\* _cleanup(): self._drone.__del__(); del self._drone
NoCleanup(who) == UNCHANGED <<drone, releases>>
Cleanup(who) ==
    /\ drone' = FALSE
    /\ releases' = Append(releases, who)

\* Thread.join() returns once the thread has finished
JoinNoWait(pc) == TRUE
JoinReturns(pc) == pc \in {"done", "exited"}

\* get_data_async's polling condition: `while not task.done()` ends
NeverWaits(t) == TRUE
TaskDone(t) == t = "done"

\* values a telemetry getter can produce (0 is "no value")
TelemetryValues == {1, 2}

\* Thread.start() starts a thread that was never started (and raises
\* RuntimeError otherwise)
AlwaysStartable(pc) == TRUE
ThreadStartable(pc) == pc = "unstarted"

\* the exit condition of stop()'s spin wait: not (len(self._queue) > 0)
NoDrain(q) == TRUE
DrainDone(q) == Len(q) = 0

\* the state the main thread is in between calls: user code when __init__
\* returned, otherwise only interpreter exit (atexit) is left
Idle == IF ctorError = "none" THEN "ready" ELSE "ctorFailed"

\* ------------------------------------------------------------------- Init
\* the maneuver engine, the geofence computation and the plugin caches are
\* exercised by their own specifications below; elsewhere they are at rest
ManIdle ==
    /\ manReq = <<>>
    /\ manTel = <<>>
    /\ manOut = <<>>

GeoIdle ==
    /\ geoReq = <<>>
    /\ geoOut = <<>>

PlugIdle ==
    /\ taskCache = <<>>
    /\ resultCache = <<>>
    /\ tasks = <<>>
    /\ recorded = <<>>

TxIdle ==
    /\ transponderData = 0
    /\ txSamples = <<>>
    /\ txReads = <<>>

TimeIdle ==
    /\ now = 0
    /\ sliceStart = 0
    /\ wakeAt = 0
    /\ spc = "top"
    /\ sliceWork = "none"
    /\ waiting = 0
    /\ burstAt = 0 - 1
    /\ iters = 0
    /\ dispatchTimes = <<>>

SnapIdle ==
    /\ telAtCall = <<>>

ObIdle ==
    /\ is_active = FALSE
    /\ obQuery = "pending"
    /\ obAnswer = FALSE
    /\ linkActive = FALSE
    /\ obPending = <<>>
    /\ obLast = "none"
    /\ obReads = <<>>

\* the session when __init__ has set its fields and registered stop() with
\* atexit, before _connect()
SessionInit ==
    /\ mpc = "connect"
    /\ ctorError = "none"
    /\ stopCalls = 0
    /\ stopsDone = 0
    /\ stopError = "none"
    /\ enq = <<>>
    /\ queue = <<>>
    /\ cleared = {}
    /\ wpc = "unstarted"
    /\ cur = 0
    /\ dispatched = <<>>
    /\ inlineRun = {}
    /\ rejected = {}
    /\ stopped_mavlink = FALSE
    /\ stopped_loop = FALSE
    /\ drone = TRUE
    /\ releases = <<>>
    /\ lpc = "nothread"
    /\ hookCalls = 0
    /\ tpc = "unstarted"
    /\ loopStopping = FALSE
    /\ scheduled = {}
    /\ ran = {}
    /\ teardownCalls = 0
    /\ connected = FALSE
    /\ calibrated = FALSE
    /\ setupCalls = 0
    /\ loopStarts = 0
    /\ gstate = "none"
    /\ gresult = 0
    /\ got = 0
    /\ gets = 0
    /\ dispAtGet = 0

Init ==
    /\ SessionInit
    /\ ObIdle
    /\ SnapIdle
    /\ TimeIdle
    /\ TxIdle
    /\ ManIdle
    /\ GeoIdle
    /\ PlugIdle

\* ---------------------------------------------------------- construction
\* _connect(): run_until_complete(self._drone.connect(...)) returns, or a
\* KeyboardInterrupt interrupts it: _cleanup() runs and the interrupt is
\* re-raised, but the finally clause still runs first
Connect ==
    /\ mpc = "connect"
    /\ \/ /\ mpc' = "asyncConnect"
          /\ UNCHANGED <<drone, releases, ctorError>>
       \/ /\ Cleanup("init")
          /\ mpc' = "asyncConnect"
          /\ ctorError' = "KeyboardInterrupt"
    /\ UNCHANGED <<stopCalls, stopsDone, stopError, enq, queue, cleared,
                   workerVars, stopped_mavlink, stopped_loop, loopVars,
                   eventVars, loopStopping, teardownCalls>>
    /\ UNCHANGED <<ctorVars, loopStarts, bridgeVars, pureVars>>

\* the finally clause of _connect(): run_until_complete(_async_connect()),
\* which reads self._drone.core; with the attribute deleted that raises
\* AttributeError, which replaces the exception being propagated
AsyncConnect ==
    /\ mpc = "asyncConnect"
    /\ IF drone
         THEN /\ mpc' = "calibrate"
              /\ connected' = TRUE
              /\ UNCHANGED ctorError
         ELSE /\ mpc' = "ctorFailed"
              /\ ctorError' = "AttributeError"
              /\ UNCHANGED connected
    /\ UNCHANGED <<stopCalls, stopsDone, stopError, enq, queue, cleared,
                   workerVars, stopped_mavlink, stopped_loop, drone, releases,
                   loopVars, eventVars, loopStopping, teardownCalls>>
    /\ UNCHANGED <<calibrated, setupCalls, loopStarts, bridgeVars, pureVars>>

\* (entering the setup hook without having run the calibration routines)
SkipCalibrate ==
    /\ mpc = "calibrate"
    /\ setupCalls' = setupCalls + 1
    /\ mpc' = "setup"
    /\ UNCHANGED <<ctorError, stopCalls, stopsDone, stopError, enq, queue,
                   cleared, workerVars, stopped_mavlink, stopped_loop, drone,
                   releases, loopVars, eventVars, loopStopping, teardownCalls,
                   connected, calibrated, loopStarts, bridgeVars, pureVars>>

\* plugins and sensor manager are created, calibrate_all() runs, then the
\* setup hook is entered
Calibrate ==
    /\ mpc = "calibrate"
    /\ calibrated' = TRUE
    /\ setupCalls' = setupCalls + 1
    /\ mpc' = "setup"
    /\ UNCHANGED <<ctorError, stopCalls, stopsDone, stopError, enq, queue,
                   cleared, workerVars, stopped_mavlink, stopped_loop, drone,
                   releases, loopVars, eventVars, loopStopping, teardownCalls>>
    /\ UNCHANGED <<connected, loopStarts, bridgeVars, pureVars>>

\* the setup hook calls a command method (arm, takeoff, ...)
SetupCommand ==
    /\ mpc = "setup"
    /\ Produced < MaxCmds
    /\ PutCmd("async", "setup")
    /\ UNCHANGED <<mainVars, cleared, workerVars, stopped_mavlink,
                   stopped_loop, drone, releases, loopVars, eventVars,
                   loopStopping, teardownCalls>>
    /\ UNCHANGED <<ctorVars, loopStarts, bridgeVars, pureVars>>

\* setup() returns; self._loop_thread is created
SetupReturn ==
    /\ mpc = "setup"
    /\ mpc' = "startWorker"
    /\ lpc' = "unstarted"
    /\ UNCHANGED <<ctorError, stopCalls, stopsDone, stopError, enq, queue,
                   cleared, workerVars, stopped_mavlink, stopped_loop, drone,
                   releases, hookCalls, eventVars, loopStopping,
                   teardownCalls>>
    /\ UNCHANGED <<ctorVars, loopStarts, bridgeVars, pureVars>>

\* self._mavlink_thread.start()
StartWorker ==
    /\ mpc = "startWorker"
    /\ mpc' = "startTelemetry"
    /\ wpc' = "head"
    /\ UNCHANGED <<ctorError, stopCalls, stopsDone, stopError, enq, queue,
                   cleared, cur, dispatched, inlineRun, rejected,
                   stopped_mavlink, stopped_loop, drone, releases, loopVars,
                   eventVars, loopStopping, teardownCalls>>
    /\ UNCHANGED <<ctorVars, loopStarts, bridgeVars, pureVars>>

\* self._telemetry_thread.start(); start_all_sensors(); __init__ returns
StartTelemetry ==
    /\ mpc = "startTelemetry"
    /\ mpc' = "ready"
    /\ tpc' = "running"
    /\ UNCHANGED <<ctorError, stopCalls, stopsDone, stopError, enq, queue,
                   cleared, workerVars, stopped_mavlink, stopped_loop, drone,
                   releases, loopVars, scheduled, ran, loopStopping,
                   teardownCalls>>
    /\ UNCHANGED <<ctorVars, loopStarts, bridgeVars, pureVars>>

\* --------------------------------------------------------------- user code
\* a command method of the session (arm, land, ...): put(self._drone.action.X).
\* Once self._drone is deleted the method raises AttributeError in the caller
\* and appends nothing, so only the case with the attribute present is a step
UserCommand ==
    /\ mpc = "ready"
    /\ drone
    /\ Produced < MaxCmds
    /\ PutCmd("async", "user")
    /\ UNCHANGED <<mainVars, cleared, workerVars, stopped_mavlink,
                   stopped_loop, drone, releases, loopVars, eventVars,
                   loopStopping, teardownCalls>>
    /\ UNCHANGED <<ctorVars, loopStarts, bridgeVars, pureVars>>

\* put(f) with an ordinary (synchronous) callable, e.g. a plugin method
UserPut ==
    /\ mpc = "ready"
    /\ Produced < MaxCmds
    /\ PutCmd("sync", "user")
    /\ UNCHANGED <<mainVars, cleared, workerVars, stopped_mavlink,
                   stopped_loop, drone, releases, loopVars, eventVars,
                   loopStopping, teardownCalls>>
    /\ UNCHANGED <<ctorVars, loopStarts, bridgeVars, pureVars>>

\* start_loop(): self._loop_thread.start().  Thread.start() raises
\* RuntimeError in the caller when the thread was started before: nothing
\* changes then
StartLoop ==
    /\ mpc = "ready"
    /\ lpc # "nothread"
    /\ IF ThreadStartable(lpc)
         THEN /\ lpc' = "check"
              /\ loopStarts' = loopStarts + 1
         ELSE UNCHANGED <<lpc, loopStarts>>
    /\ UNCHANGED <<mainVars, enq, queue, cleared, workerVars,
                   stopped_mavlink, stopped_loop, drone, releases, hookCalls,
                   eventVars, loopStopping, teardownCalls>>
    /\ UNCHANGED <<ctorVars, bridgeVars, pureVars>>

\* ----------------------------------------------------------------- stop()
\* stop() is entered (by the caller or by atexit); self._queue.clear()
StopBegin ==
    /\ mpc \in {"ready", "ctorFailed"}
    /\ stopCalls < MaxStops
    /\ stopCalls' = stopCalls + 1
    /\ stopError' = "none"
    /\ cleared' = cleared \cup Range(queue)
    /\ queue' = <<>>
    /\ mpc' = "s_disarm"
    /\ UNCHANGED <<ctorError, stopsDone, enq, workerVars, stopped_mavlink,
                   stopped_loop, drone, releases, loopVars, eventVars,
                   loopStopping, teardownCalls>>
    /\ UNCHANGED <<ctorVars, loopStarts, bridgeVars, pureVars>>

\* try: self.disarm() except AttributeError: pass
StopDisarm ==
    /\ mpc = "s_disarm"
    /\ IF drone
         THEN PutCmd("async", "stop")
         ELSE UNCHANGED <<enq, queue>>
    /\ mpc' = "s_loopstop"
    /\ UNCHANGED <<ctorError, stopCalls, stopsDone, stopError, cleared,
                   workerVars, stopped_mavlink, stopped_loop, drone, releases,
                   loopVars, eventVars, loopStopping, teardownCalls>>
    /\ UNCHANGED <<ctorVars, loopStarts, bridgeVars, pureVars>>

\* self._loop.stop()
StopEventLoop ==
    /\ mpc = "s_loopstop"
    /\ loopStopping' = TRUE
    /\ mpc' = "s_flag"
    /\ UNCHANGED <<ctorError, stopCalls, stopsDone, stopError, enq, queue,
                   cleared, workerVars, stopped_mavlink, stopped_loop, drone,
                   releases, loopVars, eventVars, teardownCalls>>
    /\ UNCHANGED <<ctorVars, loopStarts, bridgeVars, pureVars>>

\* self._stopped_loop = True
StopLoopFlag ==
    /\ mpc = "s_flag"
    /\ stopped_loop' = TRUE
    /\ mpc' = "s_joinLoop"
    /\ UNCHANGED <<ctorError, stopCalls, stopsDone, stopError, enq, queue,
                   cleared, workerVars, stopped_mavlink, drone, releases,
                   loopVars, eventVars, loopStopping, teardownCalls>>
    /\ UNCHANGED <<ctorVars, loopStarts, bridgeVars, pureVars>>

\* try: self._loop_thread.join() except RuntimeError: pass; then teardown()
\* is entered.  Without the attribute _loop_thread the read raises
\* AttributeError, which leaves stop(); a thread never started makes join()
\* raise RuntimeError, which is caught.
StopJoinLoop ==
    /\ mpc = "s_joinLoop"
    /\ IF lpc = "nothread"
         THEN /\ mpc' = Idle
              /\ stopError' = "AttributeError"
              /\ UNCHANGED teardownCalls
         ELSE /\ lpc = "unstarted" \/ JoinReturns(lpc)
              /\ mpc' = "s_teardown"
              /\ teardownCalls' = teardownCalls + 1
              /\ UNCHANGED stopError
    /\ UNCHANGED <<ctorError, stopCalls, stopsDone, enq, queue, cleared,
                   workerVars, stopped_mavlink, stopped_loop, drone, releases,
                   loopVars, eventVars, loopStopping>>
    /\ UNCHANGED <<ctorVars, loopStarts, bridgeVars, pureVars>>

\* the teardown hook calls a command method (land, ...): put(self._drone...).
\* With self._drone deleted the read raises AttributeError, which leaves the
\* hook and stop()
TeardownCommand ==
    /\ mpc = "s_teardown"
    /\ Produced < MaxCmds
    /\ IF drone
         THEN /\ PutCmd("async", "teardown")
              /\ UNCHANGED <<mpc, stopError>>
         ELSE /\ mpc' = Idle
              /\ stopError' = "AttributeError"
              /\ UNCHANGED <<enq, queue>>
    /\ UNCHANGED <<ctorError, stopCalls, stopsDone, cleared, workerVars,
                   stopped_mavlink, stopped_loop, drone, releases, loopVars,
                   eventVars, loopStopping, teardownCalls>>
    /\ UNCHANGED <<ctorVars, loopStarts, bridgeVars, pureVars>>

\* the teardown hook calls put(f) with a synchronous callable
TeardownPut ==
    /\ mpc = "s_teardown"
    /\ Produced < MaxCmds
    /\ PutCmd("sync", "teardown")
    /\ UNCHANGED <<mainVars, cleared, workerVars, stopped_mavlink,
                   stopped_loop, drone, releases, loopVars, eventVars,
                   loopStopping, teardownCalls>>
    /\ UNCHANGED <<ctorVars, loopStarts, bridgeVars, pureVars>>

\* teardown() returns
TeardownReturn ==
    /\ mpc = "s_teardown"
    /\ mpc' = "s_spin"
    /\ UNCHANGED <<ctorError, stopCalls, stopsDone, stopError, enq, queue,
                   cleared, workerVars, stopped_mavlink, stopped_loop, drone,
                   releases, loopVars, eventVars, loopStopping, teardownCalls>>
    /\ UNCHANGED <<ctorVars, loopStarts, bridgeVars, pureVars>>

\* while len(self._queue) > 0: sleep(...)  -- the loop is left
StopSpin ==
    /\ mpc = "s_spin"
    /\ DrainDone(queue)
    /\ mpc' = "s_stopflag"
    /\ UNCHANGED <<ctorError, stopCalls, stopsDone, stopError, enq, queue,
                   cleared, workerVars, stopped_mavlink, stopped_loop, drone,
                   releases, loopVars, eventVars, loopStopping, teardownCalls>>
    /\ UNCHANGED <<ctorVars, loopStarts, bridgeVars, pureVars>>

\* self._stopped_mavlink = True
StopWorkerFlag ==
    /\ mpc = "s_stopflag"
    /\ stopped_mavlink' = TRUE
    /\ mpc' = "s_joinWorker"
    /\ UNCHANGED <<ctorError, stopCalls, stopsDone, stopError, enq, queue,
                   cleared, workerVars, stopped_loop, drone, releases,
                   loopVars, eventVars, loopStopping, teardownCalls>>
    /\ UNCHANGED <<ctorVars, loopStarts, bridgeVars, pureVars>>

\* self._mavlink_thread.join(); self._close_logger(); stop() returns.
\* join() of a thread never started raises RuntimeError, which leaves stop()
StopJoinWorker ==
    /\ mpc = "s_joinWorker"
    /\ IF wpc = "unstarted"
         THEN /\ stopError' = "RuntimeError"
              /\ UNCHANGED stopsDone
         ELSE /\ JoinReturns(wpc)
              /\ stopsDone' = stopsDone + 1
              /\ UNCHANGED stopError
    /\ mpc' = Idle
    /\ UNCHANGED <<ctorError, stopCalls, enq, queue, cleared, workerVars,
                   stopped_mavlink, stopped_loop, drone, releases, loopVars,
                   eventVars, loopStopping, teardownCalls>>
    /\ UNCHANGED <<ctorVars, loopStarts, bridgeVars, pureVars>>

\* ---------------------------------------------------------- Command Worker
\* while not self._stopped_mavlink
WorkerHead ==
    /\ wpc = "head"
    /\ wpc' = IF stopped_mavlink THEN "cleanup" ELSE "pop"
    /\ UNCHANGED <<mainVars, enq, queue, cleared, cur, dispatched, inlineRun,
                   rejected, stopped_mavlink, stopped_loop, drone, releases,
                   loopVars, eventVars, loopStopping, teardownCalls>>
    /\ UNCHANGED <<ctorVars, loopStarts, bridgeVars, pureVars>>

\* com, args, kwargs = self._queue.popleft(); an empty deque raises
\* IndexError, which is caught: the iteration ends (inner finally: sleep for
\* the rest of the time slice) and the loop condition is evaluated again
WorkerPop ==
    /\ wpc = "pop"
    /\ IF Len(queue) = 0
         THEN /\ wpc' = "head"
              /\ UNCHANGED <<queue, cur>>
         ELSE /\ cur' = PopLeft(queue)
              /\ queue' = RestAfterPop(queue)
              /\ wpc' = "process"
    /\ UNCHANGED <<mainVars, enq, cleared, dispatched, inlineRun, rejected,
                   stopped_mavlink, stopped_loop, drone, releases, loopVars,
                   eventVars, loopStopping, teardownCalls>>
    /\ UNCHANGED <<ctorVars, loopStarts, bridgeVars, pureVars>>

\* _process_command(com, args, kwargs): a coroutine function is scheduled on
\* the event loop with ensure_future; the iteration ends (sleep) and the loop
\* condition is evaluated again
WorkerSchedule ==
    /\ wpc = "process"
    /\ IsCoroutine(enq[cur].kind)
    /\ dispatched' = Append(dispatched, cur)
    /\ scheduled' = scheduled \cup {cur}
    /\ cur' = 0
    /\ wpc' = "head"
    /\ UNCHANGED <<mainVars, enq, queue, cleared, inlineRun, rejected,
                   stopped_mavlink, stopped_loop, drone, releases, loopVars,
                   tpc, ran, loopStopping, teardownCalls>>
    /\ UNCHANGED <<ctorVars, loopStarts, bridgeVars, pureVars>>

\* _process_command(com, args, kwargs): any other callable is called in the
\* worker; it returns, raises a rejection (caught by the loop) or raises
\* something else, which leaves the loop through the outer finally
WorkerCall ==
    /\ wpc = "process"
    /\ ~IsCoroutine(enq[cur].kind)
    /\ dispatched' = Append(dispatched, cur)
    /\ inlineRun' = inlineRun \cup {cur}
    /\ cur' = 0
    /\ \E outcome \in {"ok", "rej", "err"} :
          /\ rejected' = IF outcome = "rej" THEN rejected \cup {cur}
                                            ELSE rejected
          /\ wpc' = IF outcome = "ok" \/ WorkerCatches(outcome)
                       THEN "head" ELSE "cleanup"
    /\ UNCHANGED <<mainVars, enq, queue, cleared, stopped_mavlink,
                   stopped_loop, drone, releases, loopVars, eventVars,
                   loopStopping, teardownCalls>>
    /\ UNCHANGED <<ctorVars, loopStarts, bridgeVars, pureVars>>

\* the outer finally: self._cleanup(); the thread ends
WorkerCleanup ==
    /\ wpc = "cleanup"
    /\ Cleanup("worker")
    /\ wpc' = "exited"
    /\ UNCHANGED <<mainVars, enq, queue, cleared, cur, dispatched, inlineRun,
                   rejected, stopped_mavlink, stopped_loop, loopVars,
                   eventVars, loopStopping, teardownCalls>>
    /\ UNCHANGED <<ctorVars, loopStarts, bridgeVars, pureVars>>

\* ------------------------------------------------------------- Loop-Thread
\* while not self._stopped_loop: self.loop()
LoopCheck ==
    /\ lpc = "check"
    /\ IF stopped_loop
         THEN /\ lpc' = "done"
              /\ UNCHANGED hookCalls
         ELSE /\ hookCalls < MaxLoopIters
              /\ lpc' = "hook"
              /\ hookCalls' = hookCalls + 1
    /\ UNCHANGED <<mainVars, enq, queue, cleared, workerVars,
                   stopped_mavlink, stopped_loop, drone, releases, eventVars,
                   loopStopping, teardownCalls>>
    /\ UNCHANGED <<ctorVars, loopStarts, bridgeVars, pureVars>>

\* the loop hook calls maneuver_to(...): put(self._maneuver_to, ...)
HookCommand ==
    /\ lpc = "hook"
    /\ Produced < MaxCmds
    /\ PutCmd("async", "hook")
    /\ UNCHANGED <<mainVars, cleared, workerVars, stopped_mavlink,
                   stopped_loop, drone, releases, loopVars, eventVars,
                   loopStopping, teardownCalls>>
    /\ UNCHANGED <<ctorVars, loopStarts, bridgeVars, pureVars>>

\* loop() returns
HookReturn ==
    /\ lpc = "hook"
    /\ lpc' = "check"
    /\ UNCHANGED <<mainVars, enq, queue, cleared, workerVars,
                   stopped_mavlink, stopped_loop, drone, releases, hookCalls,
                   eventVars, loopStopping, teardownCalls>>
    /\ UNCHANGED <<ctorVars, loopStarts, bridgeVars, pureVars>>

\* -------------------------------------------------------------- event loop
\* run_forever() runs a task the worker created.  Whether the operation
\* succeeds or raises (e.g. ActionError), the outcome stays in the Task object:
\* nothing of the session's state depends on it
RunTask ==
    /\ tpc = "running"
    /\ \E id \in scheduled :
          /\ scheduled' = scheduled \ {id}
          /\ ran' = ran \cup {id}
    /\ UNCHANGED <<mainVars, enq, queue, cleared, workerVars,
                   stopped_mavlink, stopped_loop, drone, releases, loopVars,
                   tpc, loopStopping, teardownCalls>>
    /\ UNCHANGED <<ctorVars, loopStarts, bridgeVars, pureVars>>

\* run_forever() sees the _stopping flag after an iteration and returns
EventLoopExit ==
    /\ tpc = "running"
    /\ loopStopping
    /\ tpc' = "stopped"
    /\ UNCHANGED <<mainVars, enq, queue, cleared, workerVars,
                   stopped_mavlink, stopped_loop, drone, releases, loopVars,
                   scheduled, ran, loopStopping, teardownCalls>>
    /\ UNCHANGED <<ctorVars, loopStarts, bridgeVars, pureVars>>

\* ------------------------------------------------ synchronous data bridge
\* get_data_async(func): task = asyncio.ensure_future(func(), loop=...),
\* called by the get_* methods with a bound method of self._drone
GetBegin ==
    /\ mpc = "ready"
    /\ drone
    /\ gets < MaxGets
    /\ gstate' = "pending"
    /\ dispAtGet' = Len(dispatched)
    /\ mpc' = "g_wait"
    /\ UNCHANGED <<ctorError, stopCalls, stopsDone, stopError, enq, queue,
                   cleared, workerVars, stopped_mavlink, stopped_loop, drone,
                   releases, loopVars, eventVars, loopStopping, teardownCalls>>
    /\ UNCHANGED <<ctorVars, loopStarts, gresult, got, gets, pureVars>>

\* the event loop runs the bridge's task to completion; the task stores the
\* value the operation produced
RunBridgeTask ==
    /\ tpc = "running"
    /\ gstate = "pending"
    /\ gstate' = "done"
    /\ \E v \in TelemetryValues : gresult' = v
    /\ UNCHANGED <<mainVars, enq, queue, cleared, workerVars,
                   stopped_mavlink, stopped_loop, drone, releases, loopVars,
                   eventVars, loopStopping, teardownCalls>>
    /\ UNCHANGED <<ctorVars, loopStarts, got, gets, dispAtGet, pureVars>>

\* `while not task.done(): time.sleep(0.0001)` ends; return task.result()
GetReturn ==
    /\ mpc = "g_wait"
    /\ TaskDone(gstate)
    /\ got' = gresult
    /\ gets' = gets + 1
    /\ gstate' = "none"
    /\ gresult' = 0
    /\ mpc' = "ready"
    /\ UNCHANGED <<ctorError, stopCalls, stopsDone, stopError, enq, queue,
                   cleared, workerVars, stopped_mavlink, stopped_loop, drone,
                   releases, loopVars, eventVars, loopStopping, teardownCalls>>
    /\ UNCHANGED <<ctorVars, loopStarts, dispAtGet, pureVars>>

\* ------------------------------------------------------------ specification
Next ==
    \/ Connect \/ AsyncConnect \/ Calibrate \/ SetupCommand \/ SetupReturn
    \/ StartWorker \/ StartTelemetry
    \/ UserCommand \/ UserPut \/ StartLoop
    \/ StopBegin \/ StopDisarm \/ StopEventLoop \/ StopLoopFlag
    \/ StopJoinLoop \/ TeardownCommand \/ TeardownPut \/ TeardownReturn
    \/ StopSpin \/ StopWorkerFlag \/ StopJoinWorker
    \/ WorkerHead \/ WorkerPop \/ WorkerSchedule \/ WorkerCall
    \/ WorkerCleanup
    \/ LoopCheck \/ HookCommand \/ HookReturn
    \/ RunTask \/ EventLoopExit

Spec == Init /\ [][Next]_vars

\* The session with the synchronous data bridge in use.  It starts where
\* __init__ has returned with a setup() that enqueued nothing (a state of
\* Spec), and the user then issues commands, get_* calls and stop() while
\* the worker and the event loop run; start_loop() is not called.
ReadyInit ==
    /\ mpc = "ready"
    /\ ctorError = "none"
    /\ stopCalls = 0
    /\ stopsDone = 0
    /\ stopError = "none"
    /\ enq = <<>>
    /\ queue = <<>>
    /\ cleared = {}
    /\ wpc = "head"
    /\ cur = 0
    /\ dispatched = <<>>
    /\ inlineRun = {}
    /\ rejected = {}
    /\ stopped_mavlink = FALSE
    /\ stopped_loop = FALSE
    /\ drone = TRUE
    /\ releases = <<>>
    /\ lpc = "unstarted"
    /\ hookCalls = 0
    /\ tpc = "running"
    /\ loopStopping = FALSE
    /\ scheduled = {}
    /\ ran = {}
    /\ teardownCalls = 0
    /\ connected = TRUE
    /\ calibrated = TRUE
    /\ setupCalls = 1
    /\ loopStarts = 0
    /\ gstate = "none"
    /\ gresult = 0
    /\ got = 0
    /\ gets = 0
    /\ dispAtGet = 0

BridgeInit ==
    /\ ReadyInit
    /\ ObIdle
    /\ SnapIdle
    /\ TimeIdle
    /\ TxIdle
    /\ ManIdle
    /\ GeoIdle
    /\ PlugIdle

BridgeNext ==
    \/ UserCommand \/ UserPut
    \/ GetBegin \/ RunBridgeTask \/ GetReturn
    \/ StopBegin \/ StopDisarm \/ StopEventLoop \/ StopLoopFlag
    \/ StopJoinLoop \/ TeardownCommand \/ TeardownPut \/ TeardownReturn
    \/ StopSpin \/ StopWorkerFlag \/ StopJoinWorker
    \/ WorkerHead \/ WorkerPop \/ WorkerSchedule \/ WorkerCall
    \/ WorkerCleanup
    \/ RunTask \/ EventLoopExit

BridgeSpec == BridgeInit /\ [][BridgeNext]_vars

\* ------------------------------------------------------------------ claims
Ids == 1..Len(enq)

\* number of times a command was handed to _process_command
TimesDispatched(id) == Cardinality({i \in 1..Len(dispatched) : dispatched[i] = id})

\* C1: the worker dispatches commands in the order in which they were
\* appended: ids are append positions, so the dispatch history is strictly
\* increasing, whatever mix of producers appended them.
C1_FifoDispatch ==
    \A i, j \in 1..Len(dispatched) :
        i < j => dispatched[i] < dispatched[j]

\* two commands of different producers have been dispatched
C1_Witness ==
    \E i, j \in 1..Len(dispatched) :
        /\ i < j
        /\ enq[dispatched[i]].src # enq[dispatched[j]].src

\* C2 (as stated): every appended command is dispatched exactly once if it
\* is no longer pending: never twice, and never gone from the queue without
\* having been dispatched.
C2_ConsumedExactlyOnce ==
    \A id \in Ids :
        /\ TimesDispatched(id) <= 1
        /\ (id \notin Range(queue) /\ id # cur) => TimesDispatched(id) = 1

\* C2 (amended): a command is dispatched at most once, and at any time it is
\* in exactly one place: pending in the queue, held by the worker, dispatched,
\* or discarded undispatched by stop()'s queue.clear().
C2_ConsumedAtMostOnce ==
    \A id \in Ids :
        /\ TimesDispatched(id) <= 1
        /\ Cardinality({i \in 1..Len(queue) : queue[i] = id})
             + (IF cur = id THEN 1 ELSE 0)
             + TimesDispatched(id)
             + (IF id \in cleared THEN 1 ELSE 0) = 1

\* one command was dispatched and another was discarded by stop()
C2_Witness ==
    /\ cleared # {}
    /\ Len(dispatched) > 0
    /\ \E id \in cleared : id \notin Range(dispatched)

\* C3: the step in which an inline dispatch raises a rejection error leaves
\* the worker in its loop (back at the loop condition), releases nothing and
\* leaves the pending commands in the queue, in their order, for the next
\* iterations.
C3_RejectionKeepsWorker ==
    [][rejected' # rejected =>
          /\ wpc' = "head"
          /\ drone' = drone
          /\ releases' = releases
          /\ queue' = queue]_vars

\* a command was dispatched after one whose dispatch raised a rejection
C3_Witness ==
    \E i, j \in 1..Len(dispatched) :
        /\ i < j
        /\ dispatched[i] \in rejected
        /\ releases = <<>>

\* C4 (as stated): once a first stop() call has returned, the teardown hook
\* is not invoked again, no disarm is appended, nothing is dispatched and no
\* further operation is handed to the event loop.
C4_SecondStopNoSideEffects ==
    [][stopsDone >= 1 =>
          /\ teardownCalls' = teardownCalls
          /\ \A id \in 1..Len(enq') : enq'[id].src = "stop" => id \in Ids
          /\ dispatched' = dispatched
          /\ scheduled' \subseteq scheduled]_vars

\* C5: once teardown() has been entered the loop-stop flag is set and the
\* Loop-Thread is not inside loop(): it was never started, has ended, or (if
\* started afterwards) can only see the flag and end.
C5_TeardownAfterLoop ==
    teardownCalls >= 1 => (stopped_loop /\ lpc # "hook")

\* teardown() is running after a Loop-Thread that invoked loop() was joined
C5_Witness ==
    /\ mpc = "s_teardown"
    /\ hookCalls >= 1
    /\ lpc = "done"

\* C6: when stop() is about to return (the worker has been joined) the queue
\* is empty and every command the teardown hook appended during this call has
\* been dispatched.
C6_TeardownCommandsDrained ==
    (mpc = "s_joinWorker" /\ wpc = "exited") =>
        /\ queue = <<>>
        /\ \A id \in Ids :
              (enq[id].src = "teardown" /\ enq[id].call = stopCalls)
                  => id \in Range(dispatched)

\* stop() is about to return and a command of this call's teardown hook has
\* been dispatched
C6_Witness ==
    /\ mpc = "s_joinWorker"
    /\ wpc = "exited"
    /\ \E id \in Ids :
          /\ enq[id].src = "teardown"
          /\ enq[id].call = stopCalls
          /\ id \in Range(dispatched)

\* C7 (as stated): no stop() call is left by an exception, in whatever
\* lifecycle state it is invoked.
C7_StopNeverRaises ==
    stopError = "none"

\* C8 (as stated): the wait for the queue to drain can always end: while
\* stop() waits on a non-empty queue, the only consumer is still running.
C8_DrainWaitCanEnd ==
    (mpc = "s_spin" /\ Len(queue) > 0) => wpc \notin {"cleanup", "exited"}

\* C9 (as stated): whenever the link handle has been released, it was
\* released once and by the Command Worker.
C9_ReleasedOnlyByWorker ==
    releases # <<>> => releases = <<"worker">>

\* C9 (amended): the link handle is released at most once; in a session whose
\* worker was started it is released by the worker, exactly when the worker
\* has left its loop and ended, and nothing is dispatched once it is released;
\* otherwise only the interrupted constructor releases it.
C9_ReleaseIsLastAct ==
    /\ [](/\ Len(releases) <= 1
          /\ wpc # "unstarted" =>
                /\ (wpc = "exited") <=> (releases = <<"worker">>)
                /\ (wpc # "exited") => (releases = <<>> /\ drone)
          /\ wpc = "unstarted" =>
                (releases # <<>> => (releases = <<"init">> /\ mpc # "ready")))
    /\ [][releases # <<>> => (dispatched' = dispatched /\ cur' = cur)]_vars

\* the worker has dispatched commands, left its loop and released the link
C9_Witness ==
    /\ releases = <<"worker">>
    /\ Len(dispatched) > 0
    /\ wpc = "exited"

\* C10: a dispatched coroutine command is never run inside the worker: it is
\* on the event loop (scheduled or already run by it), while a dispatched
\* synchronous command was run inline and never reaches the event loop.
C10_AsyncNeverInline ==
    \A id \in Range(dispatched) :
        IF enq[id].kind = "async"
          THEN id \notin inlineRun /\ id \in (scheduled \cup ran)
          ELSE id \in inlineRun /\ id \notin (scheduled \cup ran)

\* the worker is dispatching a further command while two earlier
\* asynchronous operations are both still incomplete
C10_Witness ==
    /\ Cardinality(scheduled) >= 2
    /\ wpc = "process"

\* C11: get_data_async returns only when the task it scheduled is done, and
\* what it returns is the value that task produced; the caller's wait blocks
\* neither the Command Worker nor the event loop: while the caller polls, the
\* worker can pop the next command and the event loop can run a scheduled
\* operation.
C11_BridgeReturnsResult ==
    /\ [][gets' = gets + 1 =>
            /\ gstate = "done"
            /\ gresult \in TelemetryValues
            /\ got' = gresult]_vars
    /\ [](mpc = "g_wait" =>
            /\ (wpc = "pop" /\ queue # <<>>) => ENABLED WorkerPop
            /\ (tpc = "running" /\ scheduled # {}) => ENABLED RunTask
            /\ (tpc = "running" /\ gstate = "pending") => ENABLED RunBridgeTask)

\* the caller is still suspended in get_data_async, its operation has
\* completed with a value, and meanwhile the worker dispatched a command and
\* the event loop ran one
C11_Witness ==
    /\ mpc = "g_wait"
    /\ gstate = "done"
    /\ gresult = 2
    /\ Len(dispatched) > dispAtGet
    /\ ran # {}

\* C12: a command method (every step that hands a command to put) appends
\* exactly one command, at the tail of the queue, and does nothing on the
\* link in the caller's context: nothing is dispatched, scheduled on the
\* event loop or run, no bridge task is created and the handle is untouched.
\* A get_* call (entering and leaving the bridge) leaves the queue unchanged
\* and returns one of the values the link produces.
C12_CommandMethodsOnlyEnqueue ==
    [][/\ enq' # enq =>
            /\ Len(enq') = Len(enq) + 1
            /\ SubSeq(enq', 1, Len(enq)) = enq
            /\ queue' = Append(queue, Len(enq'))
            /\ UNCHANGED <<dispatched, inlineRun, scheduled, ran, drone,
                           releases, gstate, gresult>>
       /\ (mpc' = "g_wait" \/ mpc = "g_wait") /\ mpc' # mpc =>
            /\ UNCHANGED <<enq, queue>>
            /\ (mpc = "g_wait" => got' \in TelemetryValues)]_vars

\* the user has enqueued two commands behind one another, both still
\* waiting, and a get_* call has returned a value
C12_Witness ==
    /\ Len(queue) >= 2
    /\ \A i \in 1..Len(queue) : enq[queue[i]].src = "user"
    /\ gets = 1
    /\ got \in TelemetryValues

\* C13: setup() is invoked at most once, and only when the connected signal
\* was observed and calibrate_all() has run; until __init__ has started the
\* worker thread nothing is dispatched, and the worker only ever runs after
\* the one setup() call; the commands setup enqueued are dispatched in the
\* order they were enqueued and ahead of every command of another producer.
ConstructionSteps == {"connect", "asyncConnect", "calibrate", "setup",
                      "startWorker"}

C14_InterruptPropagates ==
    (releases # <<>> /\ releases[1] = "init"
        /\ mpc \notin {"connect", "asyncConnect"}) =>
            /\ releases = <<"init">>
            /\ ctorError = "KeyboardInterrupt"
            /\ setupCalls = 0
            /\ wpc = "unstarted"
            /\ lpc = "nothread"
            /\ tpc = "unstarted"

\* C15: at most one Loop-Thread context is ever started; it invokes the hook
\* only while the loop-stop flag is unset and ends only once it has seen the
\* flag set; and when a stop() has returned the hook is not running and is
\* never invoked again, whether start_loop() was called before stop() or is
\* called after it.
C15_LoopHookUntilStop ==
    /\ [](/\ loopStarts <= 1
          /\ lpc \in {"check", "hook", "done"} => loopStarts = 1
          /\ lpc = "done" => stopped_loop
          /\ stopsDone >= 1 => (stopped_loop /\ lpc # "hook"))
    /\ [][hookCalls' # hookCalls =>
            (hookCalls' = hookCalls + 1 /\ ~stopped_loop /\ stopsDone = 0)]_vars

\* start_loop() was called only after stop() had returned: the Loop-Thread
\* ran and ended without invoking the hook
C15_Witness ==
    /\ stopsDone >= 1
    /\ loopStarts = 1
    /\ lpc = "done"
    /\ hookCalls = 0

\* ---------------------------------------------------------- maneuver engine
\* _maneuver_to / _maneuver_with_ned as run by the event loop for one
\* dispatched maneuver_to(front, right, down, on_dimensions, test_min).
\* Displacements, positions and _min_follow_distance are integers and the
\* heading is a multiple of 90 degrees, where sin and cos are -1, 0 or 1.
Displacements == (0 - MaxDisp)..MaxDisp
Headings == {0 - 90, 0, 90, 180}
Positions == {<<0, 0, 0>>, <<7, 0 - 3, 0 - 2>>}
MinFollowDistances == {0, 5}

Sin(deg) == CASE deg = 0 -> 0 [] deg = 90 -> 1 [] deg = 180 -> 0
              [] deg = 0 - 90 -> 0 - 1

Cos(deg) == CASE deg = 0 -> 1 [] deg = 90 -> 0 [] deg = 180 -> 0 - 1
              [] deg = 0 - 90 -> 0

\* sqrt(front^2 + right^2 + down^2) < self._min_follow_distance
NormAtMost(f, r, d, m) == m >= 0 /\ f * f + r * r + d * d <= m * m
NormBelow(f, r, d, m) == m > 0 /\ f * f + r * r + d * d < m * m

\* front = 0.0 if not on_dimensions[0] else -1 * front (and the same for
\* right); down = 0.0 if not on_dimensions[2] else down
NegatedOrZero(v, on) == IF on THEN (0 - 1) * v ELSE 0
KeptOrZero(v, on) == IF on THEN v ELSE 0

\* convert FRD to NED
RelativeNorth(front, right, deg) == right * Sin(deg) + front * Cos(deg)
RelativeEastPlus(front, right, deg) == right * Cos(deg) + front * Sin(deg)
RelativeEast(front, right, deg) == right * Cos(deg) - front * Sin(deg)

\* self.telemetry.position_velocity_ned / attitude_euler as read by
\* _maneuver_with_ned: the snapshot held when the coroutine runs
SnapshotAtCall == telAtCall
SnapshotAtRun == manTel

ManInit ==
    /\ ReadyInit
    /\ ObIdle
    /\ TimeIdle
    /\ TxIdle
    /\ GeoIdle
    /\ PlugIdle
    /\ manReq \in [front : Displacements, right : Displacements,
                   down : Displacements,
                   on_dimensions : [1..3 -> BOOLEAN],
                   test_min : BOOLEAN, pc : {"dispatched"}]
    /\ manTel \in [position : Positions, yaw_deg : Headings,
                   min_follow_distance : MinFollowDistances]
    /\ telAtCall = manTel
    /\ manOut = <<>>

\* _maneuver_to: the minimum-distance gate on the arguments as passed
ManeuverTo ==
    /\ manReq.pc = "dispatched"
    /\ IF manReq.test_min
          /\ NormBelow(manReq.front, manReq.right, manReq.down,
                       manTel.min_follow_distance)
         THEN /\ manOut' = Append(manOut, [cmd |-> "set_velocity_body",
                                          args |-> <<0, 0, 0, 0>>,
                                          yaw |-> <<0, 0>>])
              /\ manReq' = [manReq EXCEPT !.pc = "done"]
         ELSE /\ manReq' = [manReq EXCEPT !.pc = "ned"]
              /\ UNCHANGED manOut
    /\ UNCHANGED <<manTel, sessionVars, geoVars, plugVars>>
    /\ UNCHANGED <<txVars, timeVars, snapVars, obVars>>

\* _maneuver_with_ned: PositionNedYaw(north, east, down, yaw), where yaw is
\* degrees(atan2(relative_east, relative_north)); the setpoint carries the
\* pair the angle is taken of
ManeuverWithNed ==
    /\ manReq.pc = "ned"
    /\ LET front == NegatedOrZero(manReq.front, manReq.on_dimensions[1])
           right == NegatedOrZero(manReq.right, manReq.on_dimensions[2])
           down == KeptOrZero(manReq.down, manReq.on_dimensions[3])
           current_pos == SnapshotAtRun.position
           angle == SnapshotAtRun.yaw_deg
           relative_north == RelativeNorth(front, right, angle)
           relative_east == RelativeEast(front, right, angle)
       IN  manOut' = Append(manOut,
                [cmd |-> "set_position_ned",
                 args |-> <<relative_north + current_pos[1],
                            relative_east + current_pos[2],
                            down + current_pos[3]>>,
                 yaw |-> <<relative_east, relative_north>>])
    /\ manReq' = [manReq EXCEPT !.pc = "done"]
    /\ UNCHANGED <<manTel, sessionVars, geoVars, plugVars>>
    /\ UNCHANGED <<txVars, timeVars, snapVars, obVars>>

ManNext == ManeuverTo \/ ManeuverWithNed

ManeuverSpec == ManInit /\ [][ManNext]_vars

\* C16: a maneuver issues nothing until it has run and exactly one command
\* when it has ended: with test_min set, the zero-velocity hold if
\* front^2 + right^2 + down^2 < min_follow_distance^2 and a position setpoint
\* otherwise (so also at a norm equal to min_follow_distance); with test_min
\* unset always a position setpoint.
C16_OneCommandPerManeuver ==
    /\ manReq.pc # "done" => manOut = <<>>
    /\ manReq.pc = "done" =>
          /\ Len(manOut) = 1
          /\ LET m == manTel.min_follow_distance
                 sq == manReq.front * manReq.front
                         + manReq.right * manReq.right
                         + manReq.down * manReq.down
             IN  IF manReq.test_min /\ sq < m * m
                   THEN /\ manOut[1].cmd = "set_velocity_body"
                        /\ manOut[1].args = <<0, 0, 0, 0>>
                   ELSE manOut[1].cmd = "set_position_ned"

\* a displacement of norm exactly min_follow_distance (3, 4, 0 against 5),
\* gate enabled: the maneuver ended with a position setpoint
C16_Witness ==
    /\ manReq.pc = "done"
    /\ manReq.test_min
    /\ <<manReq.front, manReq.right, manReq.down>> = <<3, 4, 0>>
    /\ manTel.min_follow_distance = 5
    /\ manOut[1].cmd = "set_position_ned"

\* when the maneuver ended with a position setpoint and all axes enabled
AllAxesSetpoint ==
    /\ manReq.pc = "done"
    /\ \A i \in 1..3 : manReq.on_dimensions[i]
    /\ manOut[1].cmd = "set_position_ned"

MetersPerDegree == 111111

Angle(deg, rem) ==
    <<deg + (rem \div MetersPerDegree), rem % MetersPerDegree>>

\* offset = distance * (1 / 111111)
Offset(distance) == Angle(0, distance)

Plus(a, o) == Angle(a[1] + o[1], a[2] + o[2])
Minus(a, o) == Angle(a[1] - o[1], a[2] - o[2])

\* p1 .. p4 in the order they are passed to Polygon
FencePointsReversed(lat, lon, o) ==
    << <<Minus(lat, o), Minus(lon, o)>>, <<Minus(lat, o), Plus(lon, o)>>,
       <<Plus(lat, o), Plus(lon, o)>>, <<Plus(lat, o), Minus(lon, o)>> >>
FencePoints(lat, lon, o) ==
    << <<Minus(lat, o), Minus(lon, o)>>, <<Plus(lat, o), Minus(lon, o)>>,
       <<Plus(lat, o), Plus(lon, o)>>, <<Minus(lat, o), Plus(lon, o)>> >>

FenceDistances ==
    (0..MaxFenceMeters)
        \cup {k * MetersPerDegree : k \in 1..MaxFenceDegrees}
        \cup {MetersPerDegree + 1}
Homes == {<<Angle(10, 0), Angle(20, 0)>>, <<Angle(0, 0), Angle(0, 2)>>,
          <<Angle(0 - 1, 5), Angle(179, MetersPerDegree - 1)>>}

GeoInit ==
    /\ ReadyInit
    /\ ObIdle
    /\ SnapIdle
    /\ TimeIdle
    /\ TxIdle
    /\ ManIdle
    /\ PlugIdle
    /\ geoReq \in [distance : FenceDistances, home : Homes,
                   homeAtCall : Homes, pc : {"queued"}]
    /\ geoReq.home = geoReq.homeAtCall
    /\ geoOut = <<>>

\* telemetry reports another home position while the command waits in the
\* queue
HomeUpdate ==
    /\ geoReq.pc = "queued"
    /\ geoReq.home = geoReq.homeAtCall
    /\ \E h \in Homes \ {geoReq.home} :
          geoReq' = [geoReq EXCEPT !.home = h]
    /\ UNCHANGED <<geoOut, sessionVars, manVars, plugVars>>
    /\ UNCHANGED <<txVars, timeVars, snapVars, obVars>>

\* _create_geofence(distance): upload_geofence([polygon])
CreateGeofence ==
    /\ geoReq.pc = "queued"
    /\ LET latitude == geoReq.home[1]
           longitude == geoReq.home[2]
           offset == Offset(geoReq.distance)
           polygon == [points |-> FencePoints(latitude, longitude, offset),
                       fence_type |-> "INCLUSION"]
       IN  geoOut' = Append(geoOut, <<polygon>>)
    /\ geoReq' = [geoReq EXCEPT !.pc = "done"]
    /\ UNCHANGED <<sessionVars, manVars, plugVars>>
    /\ UNCHANGED <<txVars, timeVars, snapVars, obVars>>

GeoNext == HomeUpdate \/ CreateGeofence

GeofenceSpec == GeoInit /\ [][GeoNext]_vars

\* an angle as a count of 1/111111ths of a degree
Parts(a) == a[1] * 111111 + a[2]

\* C18: nothing is uploaded before the command runs; when it has run there
\* is exactly one upload, of exactly one polygon, tagged INCLUSION, of
\* exactly 4 points, in the order (lat-o, lon-o), (lat+o, lon-o),
\* (lat+o, lon+o), (lat-o, lon+o), with (lat, lon) the home position at
\* dispatch and o = distance/111111 degrees; for distance = k * 111111 every
\* corner is k whole degrees from home.
C18_GeofenceSquare ==
    /\ geoReq.pc = "queued" => geoOut = <<>>
    /\ geoReq.pc = "done" =>
          /\ Len(geoOut) = 1
          /\ Len(geoOut[1]) = 1
          /\ geoOut[1][1].fence_type = "INCLUSION"
          /\ Len(geoOut[1][1].points) = 4
          /\ LET p == geoOut[1][1].points
                 lat == Parts(geoReq.home[1])
                 lon == Parts(geoReq.home[2])
                 o == geoReq.distance
                 sign == << <<0 - 1, 0 - 1>>, <<1, 0 - 1>>, <<1, 1>>,
                            <<0 - 1, 1>> >>
             IN  \A i \in 1..4 :
                    /\ Parts(p[i][1]) = lat + sign[i][1] * o
                    /\ Parts(p[i][2]) = lon + sign[i][2] * o
                    /\ \A c \in 1..2 : p[i][c][2] \in 0..111110
                    /\ \A k \in 0..MaxFenceDegrees :
                          o = k * 111111 =>
                             /\ p[i][1] = <<geoReq.home[1][1] + sign[i][1] * k,
                                            geoReq.home[1][2]>>
                             /\ p[i][2] = <<geoReq.home[2][1] + sign[i][2] * k,
                                            geoReq.home[2][2]>>

\* home (10, 20) at dispatch, after it was elsewhere when create_geofence
\* was called, and distance 111111: corners (9,19), (11,19), (11,21), (9,21)
C18_Witness ==
    /\ geoReq.pc = "done"
    /\ geoReq.distance = 111111
    /\ geoReq.homeAtCall # geoReq.home
    /\ geoOut[1][1].points =
          << << <<9, 0>>, <<19, 0>> >>, << <<11, 0>>, <<19, 0>> >>,
             << <<11, 0>>, <<21, 0>> >>, << <<9, 0>>, <<21, 0>> >> >>

\* ------------------------------------------------------------ plugin caches
\* One AbstractPlugin: its _task_cache and _result_cache, the tasks handed
\* to submit_task (numbered in submission order; the result of task n is n)
\* and the event loop completing them and running their done callbacks.
TaskCacheMaxlen == 10
ResultCacheMaxlen == 10

\* deque(maxlen=n).append(x): a full deque drops its oldest entry
UnboundedAppend(q, x, maxlen) == Append(q, x)
DequeAppend(q, x, maxlen) ==
    IF Len(q) < maxlen THEN Append(q, x) ELSE Append(Tail(q), x)

\* tasks not yet through their done callback
InFlight == {n \in 1..Len(tasks) : tasks[n] \in {"pending", "ok", "error"}}
Failures == {n \in 1..Len(tasks) : tasks[n] \in {"error", "raised"}}

PluginInit ==
    /\ ReadyInit
    /\ ObIdle
    /\ SnapIdle
    /\ TimeIdle
    /\ TxIdle
    /\ ManIdle
    /\ GeoIdle
    /\ PlugIdle

\* submit_task(asyncio.ensure_future(...)): add_done_callback, then
\* self._task_cache.append(new_task)
SubmitTask ==
    /\ Len(tasks) < MaxTasks
    /\ Cardinality(InFlight) < MaxInFlight
    /\ tasks' = Append(tasks, "pending")
    /\ taskCache' = DequeAppend(taskCache, Len(tasks) + 1, TaskCacheMaxlen)
    /\ UNCHANGED <<resultCache, recorded, sessionVars, manVars, geoVars>>
    /\ UNCHANGED <<txVars, timeVars, snapVars, obVars>>

\* the event loop runs a task's coroutine to its end: it returns a value or
\* raises (ActionError, OffboardError, ...)
TaskFinish ==
    /\ \E n \in InFlight :
          /\ tasks[n] = "pending"
          /\ \/ tasks' = [tasks EXCEPT ![n] = "ok"]
             \/ /\ Cardinality(Failures) < MaxFailures
                /\ tasks' = [tasks EXCEPT ![n] = "error"]
    /\ UNCHANGED <<taskCache, resultCache, recorded, sessionVars, manVars,
                   geoVars>>
    /\ UNCHANGED <<txVars, timeVars, snapVars, obVars>>

\* _task_callback(task): self._result_cache.append(task.result()), where
\* task.result() re-raises the task's exception, so nothing is appended
RecordTwice(n) ==
    /\ resultCache' = DequeAppend(DequeAppend(resultCache, n,
                                     ResultCacheMaxlen), n, ResultCacheMaxlen)
    /\ recorded' = Append(Append(recorded, n), n)
    /\ tasks' = [tasks EXCEPT ![n] = "recorded"]
RecordResult(n) ==
    /\ resultCache' = DequeAppend(resultCache, n, ResultCacheMaxlen)
    /\ recorded' = Append(recorded, n)
    /\ tasks' = [tasks EXCEPT ![n] = "recorded"]

TaskCallback ==
    /\ \E n \in InFlight :
          \/ /\ tasks[n] = "ok"
             /\ RecordResult(n)
          \/ /\ tasks[n] = "error"
             /\ tasks' = [tasks EXCEPT ![n] = "raised"]
             /\ UNCHANGED <<resultCache, recorded>>
    /\ UNCHANGED <<taskCache, sessionVars, manVars, geoVars>>
    /\ UNCHANGED <<txVars, timeVars, snapVars, obVars>>

PluginNext == SubmitTask \/ TaskFinish \/ TaskCallback

PluginSpec == PluginInit /\ [][PluginNext]_vars

\* the last (at most 10) entries of a sequence
LastTen(s) == SubSeq(s, IF Len(s) > 10 THEN Len(s) - 9 ELSE 1, Len(s))

\* C19: each cache holds at most 10 entries, and they are the most recently
\* added ones in the order they were added: the task cache the last (at most
\* 10) tasks submitted, the result cache the last (at most 10) results
\* recorded.
C19_CachesHoldLastTen ==
    /\ Len(taskCache) <= 10
    /\ Len(resultCache) <= 10
    /\ taskCache = LastTen([n \in 1..Len(tasks) |-> n])
    /\ resultCache = LastTen(recorded)

\* an 11th task was submitted and an 11th result recorded: each cache has
\* dropped its oldest entry and holds the ten later ones
C19_Witness ==
    /\ Len(tasks) = 11
    /\ Len(recorded) = 11
    /\ Len(taskCache) = 10
    /\ Head(taskCache) = 2
    /\ resultCache = Tail(recorded)

\* how often a task's result was recorded
TimesRecorded(n) == Cardinality({i \in 1..Len(recorded) : recorded[i] = n})

TxValues == 1..3

\* __init__ hands self._system.transponder.transponder(), the link's own
\* stream, to ensure_future; nothing ever calls _transponder_update
UpdateSubscribed == FALSE

\* _transponder_update, for one sample of the stream
TransponderUpdate(cache, sample) ==
    IF sample # cache THEN sample ELSE cache

TransponderInit ==
    /\ ReadyInit
    /\ ObIdle
    /\ SnapIdle
    /\ TimeIdle
    /\ ManIdle
    /\ GeoIdle
    /\ PlugIdle
    /\ TxIdle

\* the stream delivers a sample
SampleDelivered ==
    /\ Len(txSamples) < MaxSamples
    /\ \E v \in TxValues :
          /\ txSamples' = Append(txSamples, v)
          /\ transponderData' =
                IF UpdateSubscribed
                  THEN TransponderUpdate(transponderData, v)
                  ELSE transponderData
    /\ UNCHANGED <<txReads, sessionVars, manVars, geoVars, plugVars>>
    /\ UNCHANGED <<timeVars, snapVars, obVars>>

\* transponder(): return self._transponder_data; the history records the
\* value returned and how many samples had been delivered by then
TransponderRead ==
    /\ Len(txReads) < MaxReads
    /\ txReads' = Append(txReads, [value |-> transponderData,
                                   after |-> Len(txSamples)])
    /\ UNCHANGED <<transponderData, txSamples, sessionVars, manVars, geoVars,
                   plugVars>>
    /\ UNCHANGED <<timeVars, snapVars, obVars>>

TransponderNext == SampleDelivered \/ TransponderRead

TransponderSpec == TransponderInit /\ [][TransponderNext]_vars

\* C21: transponder() returns the initial empty value only before the first
\* sample, and once samples were delivered it returns the most recently
\* delivered one.
C21_ReturnsLatestSample ==
    \A i \in 1..Len(txReads) :
        IF txReads[i].after = 0
          THEN txReads[i].value = 0
          ELSE txReads[i].value = txSamples[txReads[i].after]

\* ------------------------------------------------------------ worker timing
\* One Command Worker iterating over its queue, into which user code puts
\* MaxBurst or fewer commands at once at some moment, with time made
\* explicit: `now` is the clock perf_counter() reads, TimeSlice is
\* self._time_slice, both in ticks.  Time can pass at any point of the
\* iteration.
TimingInit ==
    /\ ReadyInit
    /\ ObIdle
    /\ SnapIdle
    /\ ManIdle
    /\ GeoIdle
    /\ PlugIdle
    /\ TxIdle
    /\ TimeIdle

\* time.sleep(d) returns once at least d has elapsed
SleepOverAtOnce(t, wake) == TRUE
SleepOver(t, wake) == t >= wake

\* time passes
Tick ==
    /\ now < MaxTime
    /\ now' = now + 1
    /\ UNCHANGED <<sliceStart, wakeAt, spc, sliceWork, waiting, burstAt,
                   iters, dispatchTimes>>
    /\ UNCHANGED <<sessionVars, manVars, geoVars, plugVars, txVars>>
    /\ UNCHANGED <<snapVars, obVars>>

\* user code calls n command methods in a row
PutBurst ==
    /\ burstAt < 0
    /\ \E n \in 1..MaxBurst : waiting' = n
    /\ burstAt' = now
    /\ UNCHANGED <<now, sliceStart, wakeAt, spc, sliceWork, iters,
                   dispatchTimes>>
    /\ UNCHANGED <<sessionVars, manVars, geoVars, plugVars, txVars>>
    /\ UNCHANGED <<snapVars, obVars>>

\* while not self._stopped_mavlink: start_time = perf_counter()
IterBegin ==
    /\ spc = "top"
    /\ sliceStart' = now
    /\ iters' = iters + 1
    /\ spc' = "try"
    /\ UNCHANGED <<now, wakeAt, sliceWork, waiting, burstAt, dispatchTimes>>
    /\ UNCHANGED <<sessionVars, manVars, geoVars, plugVars, txVars>>
    /\ UNCHANGED <<snapVars, obVars>>

\* the try block: popleft() raises IndexError on an empty queue; otherwise
\* the command is handed to _process_command, which returns or raises
\* ActionError / OffboardError; all three end in the finally clause
TimedPop ==
    /\ spc = "try"
    /\ IF waiting = 0
         THEN /\ sliceWork' = "empty"
              /\ UNCHANGED <<waiting, dispatchTimes>>
         ELSE /\ waiting' = waiting - 1
              /\ dispatchTimes' = Append(dispatchTimes,
                                    [at |-> now, iterStart |-> sliceStart])
              /\ \E r \in {"dispatched", "rejected"} : sliceWork' = r
    /\ spc' = "finally"
    /\ UNCHANGED <<now, sliceStart, wakeAt, burstAt, iters>>
    /\ UNCHANGED <<sessionVars, manVars, geoVars, plugVars, txVars>>
    /\ UNCHANGED <<snapVars, obVars>>

\* finally: end_time = perf_counter() - start_time;
\* if end_time < self._time_slice: sleep(self._time_slice - end_time)
TimedFinally ==
    /\ spc = "finally"
    /\ LET end_time == now - sliceStart
       IN  IF end_time < TimeSlice
             THEN /\ wakeAt' = now + (TimeSlice - end_time)
                  /\ spc' = "sleep"
             ELSE /\ spc' = "top"
                  /\ UNCHANGED wakeAt
    /\ UNCHANGED <<now, sliceStart, sliceWork, waiting, burstAt, iters,
                   dispatchTimes>>
    /\ UNCHANGED <<sessionVars, manVars, geoVars, plugVars, txVars>>
    /\ UNCHANGED <<snapVars, obVars>>

\* sleep() returns
SleepReturn ==
    /\ spc = "sleep"
    /\ SleepOver(now, wakeAt)
    /\ spc' = "top"
    /\ UNCHANGED <<now, sliceStart, wakeAt, sliceWork, waiting, burstAt,
                   iters, dispatchTimes>>
    /\ UNCHANGED <<sessionVars, manVars, geoVars, plugVars, txVars>>
    /\ UNCHANGED <<snapVars, obVars>>

TimingNext ==
    \/ Tick \/ PutBurst \/ IterBegin \/ TimedPop \/ TimedFinally
    \/ SleepReturn

TimingSpec == TimingInit /\ [][TimingNext]_vars

\* C22 (as stated): at most one dispatch per iteration, and the n-th of the
\* commands put at once is dispatched at least n - 1 time slices after they
\* were put.
C22_BurstTakesSlices ==
    /\ Len(dispatchTimes) <= iters
    /\ \A i \in 1..Len(dispatchTimes) :
          dispatchTimes[i].at - burstAt >= (i - 1) * TimeSlice

\* C22 (amended): there is at most one dispatch per iteration; an iteration
\* begins no sooner than TimeSlice after the one before it began, whatever
\* that one did (dispatched, was rejected, or found the queue empty); so the
\* n-th command is dispatched at least n - 1 time slices after the beginning
\* of the iteration that dispatched the first.
C22_OneDispatchPerSlice ==
    /\ [](/\ Len(dispatchTimes) <= iters
          /\ \A i \in 1..Len(dispatchTimes) :
                /\ dispatchTimes[i].at >= dispatchTimes[i].iterStart
                /\ dispatchTimes[i].iterStart - dispatchTimes[1].iterStart
                      >= (i - 1) * TimeSlice)
    /\ [][(iters' = iters + 1 /\ iters >= 1) =>
              now - sliceStart >= TimeSlice]_vars
    /\ [][Len(dispatchTimes') <= Len(dispatchTimes) + 1]_vars

\* two commands were put while an iteration was under way; the first was
\* dispatched late in that iteration and the second less than a time slice
\* after they were put
C22_Witness ==
    /\ Len(dispatchTimes) = 2
    /\ burstAt > dispatchTimes[1].iterStart
    /\ dispatchTimes[2].at - burstAt < TimeSlice
    /\ dispatchTimes[2].iterStart - dispatchTimes[1].iterStart >= TimeSlice

\* C23: when the first stop() has returned and the link handle has been
\* released, the disarm that stop() enqueued was dispatched once and its
\* operation has been run by the event loop.
C23_DisarmReachesLink ==
    (stopsDone >= 1 /\ releases # <<>>) =>
        \A id \in Ids :
            (enq[id].src = "stop" /\ enq[id].call = 1) =>
                (TimesDispatched(id) = 1 /\ id \in ran)

\* C24: with test_min set, the maneuver ends with the zero-velocity hold
\* exactly when the norm of the displacement with its disabled axes zeroed
\* is below min_follow_distance; so a request that is non-zero only on
\* disabled axes yields the hold whenever the minimum is positive.
C24_GateUsesEnabledAxes ==
    (manReq.pc = "done" /\ manReq.test_min) =>
        LET f == IF manReq.on_dimensions[1] THEN manReq.front ELSE 0
            r == IF manReq.on_dimensions[2] THEN manReq.right ELSE 0
            d == IF manReq.on_dimensions[3] THEN manReq.down ELSE 0
            m == manTel.min_follow_distance
        IN  (manOut[1].cmd = "set_velocity_body")
                <=> (f * f + r * r + d * d < m * m)

\* ------------------------------------------- maneuver and telemetry updates
\* A maneuver that waits in the queue while telemetry moves on: between the
\* call of maneuver_to() and the run of _maneuver_to the telemetry plugin
\* replaces the position and heading snapshot.
SnapRequests ==
    [front : {0, 3}, right : {0, 0 - 2}, down : {0, 1},
     on_dimensions : {<<TRUE, TRUE, TRUE>>, <<TRUE, FALSE, TRUE>>},
     test_min : BOOLEAN, pc : {"dispatched"}]

SnapInit ==
    /\ ReadyInit
    /\ ObIdle
    /\ GeoIdle
    /\ PlugIdle
    /\ TxIdle
    /\ TimeIdle
    /\ manReq \in SnapRequests
    /\ manTel \in [position : Positions, yaw_deg : Headings,
                   min_follow_distance : MinFollowDistances]
    /\ telAtCall = manTel
    /\ manOut = <<>>

\* the telemetry plugin stores a new position / attitude sample
TelemetryUpdate ==
    /\ manReq.pc = "dispatched"
    /\ manTel = telAtCall
    /\ \E p \in Positions, y \in Headings :
          /\ <<p, y>> # <<manTel.position, manTel.yaw_deg>>
          /\ manTel' = [manTel EXCEPT !.position = p, !.yaw_deg = y]
    /\ UNCHANGED <<manReq, manOut, telAtCall, sessionVars, geoVars, plugVars>>
    /\ UNCHANGED <<txVars, timeVars, obVars>>

SnapNext == ManeuverTo \/ ManeuverWithNed \/ TelemetryUpdate

SnapshotSpec == SnapInit /\ [][SnapNext]_vars

\* the setpoint of a request, computed from a given telemetry snapshot
SetpointFrom(req, tel) ==
    LET f == IF req.on_dimensions[1] THEN req.front ELSE 0
        r == IF req.on_dimensions[2] THEN req.right ELSE 0
        d == IF req.on_dimensions[3] THEN req.down ELSE 0
        n == tel.position[1]
        e == tel.position[2]
    IN  CASE tel.yaw_deg = 0 -> <<n - f, e - r, tel.position[3] + d>>
          [] tel.yaw_deg = 90 -> <<n - r, e + f, tel.position[3] + d>>
          [] tel.yaw_deg = 180 -> <<n + f, e + r, tel.position[3] + d>>
          [] tel.yaw_deg = 0 - 90 -> <<n + r, e - f, tel.position[3] + d>>

\* C25: a position setpoint is computed from the position and heading that
\* telemetry holds when the maneuver runs, whatever they were when
\* maneuver_to() was called.
C25_SetpointFromDispatchSnapshot ==
    (manReq.pc = "done" /\ manOut[1].cmd = "set_position_ned") =>
        manOut[1].args = SetpointFrom(manReq, manTel)

\* the heading turned from 0 to 90 degrees while the maneuver (front 3) was
\* queued: the setpoint lies 3 to the east, where the heading at the call
\* would have put it 3 to the south
C25_Witness ==
    /\ manReq.pc = "done"
    /\ manReq.front = 3
    /\ manReq.right = 0
    /\ telAtCall.yaw_deg = 0
    /\ manTel.yaw_deg = 90
    /\ telAtCall.position = manTel.position
    /\ manOut[1].cmd = "set_position_ned"
    /\ manOut[1].args[2] = manTel.position[2] + 3
    /\ manOut[1].args # SetpointFrom(manReq, telAtCall)

\* C26: in the dispatch order nothing but commands of the teardown hook (and
\* of a later stop()) comes after a disarm enqueued by stop(): no command of
\* the Loop-Thread's hook, of setup or of user code is dispatched after it.
C26_OnlyTeardownAfterDisarm ==
    \A i, j \in 1..Len(dispatched) :
        (i < j /\ enq[dispatched[i]].src = "stop") =>
            enq[dispatched[j]].src \in {"teardown", "stop"}

\* ------------------------------------------------------------------ offboard
\* The Offboard plugin's _is_active flag: set by start() and stop() in the
\* caller's thread, and by the done callback of the is_active query that
\* __init__ scheduled on the event loop.
OffboardInit ==
    /\ ReadyInit
    /\ ManIdle
    /\ GeoIdle
    /\ PlugIdle
    /\ TxIdle
    /\ TimeIdle
    /\ SnapIdle
    /\ ObIdle

\* start(): self._is_active = True, then the offboard.start() task
OffboardStart ==
    /\ Len(obPending) < MaxToggles
    /\ obLast # "start"
    /\ is_active' = TRUE
    /\ obPending' = Append(obPending, "start")
    /\ obLast' = "start"
    /\ UNCHANGED <<obQuery, obAnswer, linkActive, obReads>>
    /\ UNCHANGED <<sessionVars, manVars, geoVars, plugVars, txVars, timeVars, snapVars>>

\* stop(): self._is_active = False, then the offboard.stop() task
OffboardStop ==
    /\ Len(obPending) < MaxToggles
    /\ obLast = "start"
    /\ is_active' = FALSE
    /\ obPending' = Append(obPending, "stop")
    /\ obLast' = "stop"
    /\ UNCHANGED <<obQuery, obAnswer, linkActive, obReads>>
    /\ UNCHANGED <<sessionVars, manVars, geoVars, plugVars, txVars, timeVars, snapVars>>

\* the event loop runs the oldest scheduled start/stop operation and the
\* flight controller switches mode
LinkOp ==
    /\ obPending # <<>>
    /\ linkActive' = (Head(obPending) = "start")
    /\ obPending' = Tail(obPending)
    /\ UNCHANGED <<is_active, obQuery, obAnswer, obLast, obReads>>
    /\ UNCHANGED <<sessionVars, manVars, geoVars, plugVars, txVars, timeVars, snapVars>>

\* the flight controller answers the query of __init__ with its mode
QueryAnswer ==
    /\ obQuery = "pending"
    /\ obAnswer' = linkActive
    /\ obQuery' = "answered"
    /\ UNCHANGED <<is_active, linkActive, obPending, obLast, obReads>>
    /\ UNCHANGED <<sessionVars, manVars, geoVars, plugVars, txVars, timeVars, snapVars>>

\* _is_active_callback(task): self._is_active = task.result()
QueryCallback ==
    /\ obQuery = "answered"
    /\ is_active' = obAnswer
    /\ obQuery' = "done"
    /\ UNCHANGED <<obAnswer, linkActive, obPending, obLast, obReads>>
    /\ UNCHANGED <<sessionVars, manVars, geoVars, plugVars, txVars, timeVars, snapVars>>

\* is_active(): return self._is_active
IsActiveRead ==
    /\ Len(obReads) < MaxReads
    /\ obReads' = Append(obReads, [value |-> is_active, last |-> obLast])
    /\ UNCHANGED <<is_active, obQuery, obAnswer, linkActive, obPending,
                   obLast>>
    /\ UNCHANGED <<sessionVars, manVars, geoVars, plugVars, txVars, timeVars, snapVars>>

OffboardNext ==
    \/ OffboardStart \/ OffboardStop \/ LinkOp
    \/ QueryAnswer \/ QueryCallback \/ IsActiveRead

OffboardSpec == OffboardInit /\ [][OffboardNext]_vars

\* C27: is_active() returns TRUE whenever the last call was start() and
\* FALSE whenever the last call was stop().
C27_IsActiveFollowsStartStop ==
    \A i \in 1..Len(obReads) :
        /\ obReads[i].last = "start" => obReads[i].value = TRUE
        /\ obReads[i].last = "stop" => obReads[i].value = FALSE

\* ------------------------------------------- the bridge in the three hooks
\* get_* called from user code that the session itself runs: from setup()
\* (inside __init__, before the worker and the event-loop thread are
\* started), from loop() (on the Loop-Thread) and from teardown() (inside
\* stop(), after self._loop.stop()).
ContextInit ==
    /\ mpc = "setup"
    /\ ctorError = "none"
    /\ stopCalls = 0
    /\ stopsDone = 0
    /\ stopError = "none"
    /\ enq = <<>>
    /\ queue = <<>>
    /\ cleared = {}
    /\ wpc = "unstarted"
    /\ cur = 0
    /\ dispatched = <<>>
    /\ inlineRun = {}
    /\ rejected = {}
    /\ stopped_mavlink = FALSE
    /\ stopped_loop = FALSE
    /\ drone = TRUE
    /\ releases = <<>>
    /\ lpc = "nothread"
    /\ hookCalls = 0
    /\ tpc = "unstarted"
    /\ loopStopping = FALSE
    /\ scheduled = {}
    /\ ran = {}
    /\ teardownCalls = 0
    /\ connected = TRUE
    /\ calibrated = TRUE
    /\ setupCalls = 1
    /\ loopStarts = 0
    /\ gstate = "none"
    /\ gresult = 0
    /\ got = 0
    /\ gets = 0
    /\ dispAtGet = 0
    /\ ManIdle
    /\ GeoIdle
    /\ PlugIdle
    /\ TxIdle
    /\ TimeIdle
    /\ SnapIdle
    /\ ObIdle

\* setup() calls a get_* method: ensure_future(...), then the polling loop
SetupGet ==
    /\ mpc = "setup"
    /\ gstate = "none"
    /\ gets < MaxGets
    /\ gstate' = "pending"
    /\ dispAtGet' = Len(dispatched)
    /\ mpc' = "setup_g"
    /\ UNCHANGED <<ctorError, stopCalls, stopsDone, stopError, enq, queue,
                   cleared, workerVars, stopped_mavlink, stopped_loop, drone,
                   releases, loopVars, eventVars, loopStopping, teardownCalls>>
    /\ UNCHANGED <<ctorVars, loopStarts, gresult, got, gets, pureVars>>

\* loop() calls a get_* method
HookGet ==
    /\ lpc = "hook"
    /\ drone
    /\ gstate = "none"
    /\ gets < MaxGets
    /\ gstate' = "pending"
    /\ dispAtGet' = Len(dispatched)
    /\ lpc' = "hook_g"
    /\ UNCHANGED <<mainVars, enq, queue, cleared, workerVars,
                   stopped_mavlink, stopped_loop, drone, releases, hookCalls,
                   eventVars, loopStopping, teardownCalls>>
    /\ UNCHANGED <<ctorVars, loopStarts, gresult, got, gets, pureVars>>

\* teardown() calls a get_* method
TeardownGet ==
    /\ mpc = "s_teardown"
    /\ drone
    /\ gstate = "none"
    /\ gets < MaxGets
    /\ gstate' = "pending"
    /\ dispAtGet' = Len(dispatched)
    /\ mpc' = "td_g"
    /\ UNCHANGED <<ctorError, stopCalls, stopsDone, stopError, enq, queue,
                   cleared, workerVars, stopped_mavlink, stopped_loop, drone,
                   releases, loopVars, eventVars, loopStopping, teardownCalls>>
    /\ UNCHANGED <<ctorVars, loopStarts, gresult, got, gets, pureVars>>

\* the hook that is polling in get_data_async
PollingHooks ==
    {h \in {"setup", "loop", "teardown"} :
        CASE h = "setup" -> mpc = "setup_g"
          [] h = "loop" -> lpc = "hook_g"
          [] h = "teardown" -> mpc = "td_g"}

\* `while not task.done(): time.sleep(0.0001)` ends in the polling hook;
\* return task.result()
HookGetReturn ==
    /\ PollingHooks # {}
    /\ TaskDone(gstate)
    /\ got' = gresult
    /\ gets' = gets + 1
    /\ gstate' = "none"
    /\ gresult' = 0
    /\ mpc' = CASE mpc = "setup_g" -> "setup"
                [] mpc = "td_g" -> "s_teardown"
                [] OTHER -> mpc
    /\ lpc' = IF lpc = "hook_g" THEN "hook" ELSE lpc
    /\ UNCHANGED <<ctorError, stopCalls, stopsDone, stopError, enq, queue,
                   cleared, workerVars, stopped_mavlink, stopped_loop, drone,
                   releases, hookCalls, eventVars, loopStopping,
                   teardownCalls>>
    /\ UNCHANGED <<ctorVars, loopStarts, dispAtGet, pureVars>>

ContextNext ==
    \/ SetupGet \/ SetupReturn \/ StartWorker \/ StartTelemetry
    \/ StartLoop \/ LoopCheck \/ HookGet \/ HookReturn
    \/ StopBegin \/ StopDisarm \/ StopEventLoop \/ StopLoopFlag
    \/ StopJoinLoop \/ TeardownGet \/ TeardownReturn
    \/ StopSpin \/ StopWorkerFlag \/ StopJoinWorker
    \/ WorkerHead \/ WorkerPop \/ WorkerSchedule \/ WorkerCleanup
    \/ RunTask \/ RunBridgeTask \/ EventLoopExit
    \/ HookGetReturn

\* the threads that exist keep running: the event loop runs a pending task
\* while run_forever() is running, and a polling caller sees a finished task
ContextSpec ==
    /\ ContextInit
    /\ [][ContextNext]_vars
    /\ WF_vars(ContextNext)
    /\ WF_vars(RunBridgeTask)
    /\ WF_vars(HookGetReturn)

\* C28: a get_* call made from setup(), loop() or teardown() eventually
\* returns: a pending bridge task is eventually finished and collected.
C28_HookGetReturns ==
    (gstate = "pending") ~> (gstate = "none")

\* C29: the Command Worker has left its loop, and the link handle has been
\* released by it, only when stop() has set the worker-stop flag.
C29_WorkerEndsOnlyWhenStopped ==
    /\ wpc \in {"cleanup", "exited"} => stopped_mavlink
    /\ (\E i \in 1..Len(releases) : releases[i] = "worker") => stopped_mavlink

=============================================================================
